---- MODULE Spec2Model ----
(***************************************************************************)
(* Model of placement_test/api/quiz_results.py: the webhook                *)
(* submit_quiz_result, which resolves a request body to a payload,         *)
(* validates it, derives the fields of a "Placement Test Result" document  *)
(* and upserts the document keyed by result_id.                            *)
(*                                                                         *)
(* Python values are tagged records; the field that carries a value's      *)
(* content is named after its type, so that two values of different types  *)
(* are different records:                                                  *)
(*   None   [t |-> "null"]            bool  [t |-> "bool", b |-> TRUE]     *)
(*   int    [t |-> "int", i |-> 42]   float [t |-> "float", m, k] = m/10^k *)
(*   inf    [t |-> "inf", neg]        nan   [t |-> "nan"]                  *)
(*   str    [t |-> "str", s |-> <<"4","2">>]  (a sequence of characters)   *)
(*   list   [t |-> "list", xs |-> <<...>>]                                 *)
(*   dict   [t |-> "obj", kv |-> << <<key, value>>, ... >>] (ordered)      *)
(*   an integer beyond the range of a float (10^400): [t |-> "bigint"]     *)
(* A raised exception is [t |-> "raise", e |-> <class name>].  The keys of *)
(* a dict come from the fixed vocabulary of the payload and are written as *)
(* one symbol each, in a dict and in its serialisation.                    *)
(***************************************************************************)
EXTENDS Integers, Sequences, FiniteSets, TLC

VARIABLES
    db,          \* the committed store: the set of Placement Test Result documents
    pc,          \* pc[p]: where invocation p of submit_quiz_result stands
    payload,     \* payload[p]: the local variable payload
    doc_values,  \* doc_values[p]: the local variable doc_values
    existing,    \* existing[p]: the local variable existing (a list of names)
    txn,         \* txn[p]: the uncommitted writes of p's database transaction
    result,      \* result[p]: what the invocation returned, or the exception that escaped
    lastOk,      \* history: result_id -> payload of the latest call that returned success
    fn,          \* pure-function checks: the function applied ("" before the call)
    args,        \* pure-function checks: its arguments
    ret          \* pure-function checks: what it returned or raised

vars == <<db, pc, payload, doc_values, existing, txn, result, lastOk, fn, args, ret>>

---------------------------------------------------------------------------
(* Bounds of the model. *)

\* Longest string drawn over CoerceAlphabet as an input of _to_int / _to_float.
MaxStrLen == 2

\* Number of concurrent invocations in the concurrent specification.
NProcs == 2

\* Longest custom_fields list given to _extract_custom_value.
MaxCustomFields == 2

---------------------------------------------------------------------------
(* Python values. *)

Null == [t |-> "null"]
JBool(b) == [t |-> "bool", b |-> b]
JInt(n) == [t |-> "int", i |-> n]
JInf == [t |-> "inf", neg |-> FALSE]
JNaN == [t |-> "nan"]
JBig == [t |-> "bigint"]
JStr(cs) == [t |-> "str", s |-> cs]
JList(xs) == [t |-> "list", xs |-> xs]
JObj(kv) == [t |-> "obj", kv |-> kv]
Raise(e) == [t |-> "raise", e |-> e]

RECURSIVE Pow10(_)
Pow10(k) == IF k = 0 THEN 1 ELSE 10 * Pow10(k - 1)

RECURSIVE NormFloat(_, _)
\* m / 10^k without trailing zeros in the fraction: 4.50 and 4.5 are one float.
NormFloat(m, k) ==
    IF k > 0 /\ m % 10 = 0 THEN NormFloat(m \div 10, k - 1)
    ELSE [t |-> "float", m |-> m, k |-> k]

JFloat(m, k) == NormFloat(m, k)

IsRaise(x) == x.t = "raise"

\* bool(x): Python's truth value.
Truthy(x) ==
    CASE x.t = "null" -> FALSE
      [] x.t = "bool" -> x.b
      [] x.t = "int" -> x.i # 0
      [] x.t = "float" -> x.m # 0
      [] x.t = "str" -> x.s # <<>>
      [] x.t = "list" -> x.xs # <<>>
      [] x.t = "obj" -> x.kv # <<>>
      [] OTHER -> TRUE

\* x or default
Or(x, default) == IF Truthy(x) THEN x ELSE default

HasKey(o, key) == \E n \in 1..Len(o.kv) : o.kv[n][1] = key

\* dict.get(key): the value under key, None when the key is absent.
Get(o, key) ==
    IF HasKey(o, key)
    THEN o.kv[CHOOSE n \in 1..Len(o.kv) : o.kv[n][1] = key][2]
    ELSE Null

---------------------------------------------------------------------------
(* Characters and numerals. *)

Digits == <<"0", "1", "2", "3", "4", "5", "6", "7", "8", "9">>

IsDigit(c) == \E d \in 1..10 : Digits[d] = c

DigitVal(c) == (CHOOSE d \in 1..10 : Digits[d] = c) - 1

AllDigits(cs) == cs # <<>> /\ \A n \in 1..Len(cs) : IsDigit(cs[n])

RECURSIVE DigitsVal(_)
DigitsVal(cs) ==
    IF cs = <<>> THEN 0
    ELSE 10 * DigitsVal(SubSeq(cs, 1, Len(cs) - 1)) + DigitVal(cs[Len(cs)])

RECURSIVE NatChars(_)
NatChars(n) ==
    IF n < 10 THEN <<Digits[n + 1]>>
    ELSE NatChars(n \div 10) \o <<Digits[(n % 10) + 1]>>

IntChars(n) == IF n < 0 THEN <<"-">> \o NatChars(-n) ELSE NatChars(n)

RECURSIVE PadChars(_, _)
\* n written with at least k digits
PadChars(n, k) ==
    IF Len(NatChars(n)) >= k THEN NatChars(n)
    ELSE <<"0">> \o PadChars(n, k - 1)

Abs(n) == IF n < 0 THEN -n ELSE n

\* repr of a finite float: 90.0, 4.5, -0.25
FloatChars(x) ==
    LET a == Abs(x.m)
        p == Pow10(x.k)
    IN (IF x.m < 0 THEN <<"-">> ELSE <<>>)
       \o NatChars(a \div p) \o <<".">>
       \o (IF x.k = 0 THEN <<"0">> ELSE PadChars(a % p, x.k))

\* The decimal digits of 10^400, the integer JBig stands for.
BigChars == [n \in 1..401 |-> IF n = 1 THEN "1" ELSE "0"]

RECURSIVE LStrip(_)
LStrip(cs) == IF cs # <<>> /\ cs[1] = " " THEN LStrip(Tail(cs)) ELSE cs

RECURSIVE RStrip(_)
RStrip(cs) ==
    IF cs # <<>> /\ cs[Len(cs)] = " " THEN RStrip(SubSeq(cs, 1, Len(cs) - 1)) ELSE cs

Strip(cs) == RStrip(LStrip(cs))

Member(c, cs) == \E n \in 1..Len(cs) : cs[n] = c

---------------------------------------------------------------------------
(* int(value) and float(value), the builtins _to_int and _to_float call. *)

\* int(str): surrounding blanks, an optional sign, decimal digits.
int_of_str(cs) ==
    LET s == Strip(cs)
        signed == s # <<>> /\ s[1] \in {"+", "-"}
        body == IF signed THEN Tail(s) ELSE s
    IN IF ~AllDigits(body) THEN Raise("ValueError")
       ELSE IF Len(body) > 9 THEN JBig
       ELSE JInt((IF signed /\ s[1] = "-" THEN -1 ELSE 1) * DigitsVal(body))

int(value) ==
    CASE value.t = "bool" -> JInt(IF value.b THEN 1 ELSE 0)
      [] value.t = "int" -> value
      [] value.t = "bigint" -> value
      [] value.t = "float" ->
            JInt((IF value.m < 0 THEN -1 ELSE 1) * (Abs(value.m) \div Pow10(value.k)))
      [] value.t = "inf" -> Raise("OverflowError")
      [] value.t = "nan" -> Raise("ValueError")
      [] value.t = "str" -> int_of_str(value.s)
      [] OTHER -> Raise("TypeError")

Word_inf == <<"i", "n", "f">>
Word_infinity == <<"i", "n", "f", "i", "n", "i", "t", "y">>
Word_nan == <<"n", "a", "n">>

\* float(str): surrounding blanks, an optional sign, then inf / infinity / nan or
\* digits with at most one point and a digit on one side of it.  (Exponents and
\* upper case are not read: no string of the model carries them.  The one numeral
\* of more than 9 digits in the model is 10^400, which float() rounds to inf and
\* int() reads exactly.)
float_of_str(cs) ==
    LET s == Strip(cs)
        signed == s # <<>> /\ s[1] \in {"+", "-"}
        neg == signed /\ s[1] = "-"
        body == IF signed THEN Tail(s) ELSE s
        dot == IF Member(".", body)
               THEN CHOOSE n \in 1..Len(body) :
                        body[n] = "." /\ \A j \in 1..(n - 1) : body[j] # "."
               ELSE Len(body) + 1
        ip == SubSeq(body, 1, dot - 1)
        fp == SubSeq(body, dot + 1, Len(body))
        digits == ip \o fp
    IN IF body \in {Word_inf, Word_infinity} THEN [t |-> "inf", neg |-> neg]
       ELSE IF body = Word_nan THEN JNaN
       ELSE IF ~AllDigits(digits) THEN Raise("ValueError")
       ELSE IF Len(digits) > 9 THEN [t |-> "inf", neg |-> neg]
       ELSE JFloat((IF neg THEN -1 ELSE 1) * DigitsVal(digits), Len(fp))

float(value) ==
    CASE value.t = "bool" -> JFloat(IF value.b THEN 1 ELSE 0, 0)
      [] value.t = "int" -> JFloat(value.i, 0)
      [] value.t = "bigint" -> Raise("OverflowError")
      [] value.t = "float" -> value
      [] value.t = "inf" -> value
      [] value.t = "nan" -> value
      [] value.t = "str" -> float_of_str(value.s)
      [] OTHER -> Raise("TypeError")

Word_null == <<"n", "u", "l", "l">>

\* value in (None, "", "null")
IsAbsent(value) == value \in {Null, JStr(<<>>), JStr(Word_null)}

\* except (TypeError, ValueError): return None.  Any other exception propagates.
CatchTypeValue(r) ==
    IF IsRaise(r) /\ r.e \in {"TypeError", "ValueError"} THEN Null ELSE r

_to_int(value) == IF IsAbsent(value) THEN Null ELSE CatchTypeValue(int(value))

_to_float(value) == IF IsAbsent(value) THEN Null ELSE CatchTypeValue(float(value))

---------------------------------------------------------------------------
(* str(value) and repr(value). *)

Quote == "\""
Apostrophe == "'"
Backslash == "\\"

RECURSIVE EscapeChars(_, _)
\* cs with a backslash before every character of special
EscapeChars(cs, special) ==
    IF cs = <<>> THEN <<>>
    ELSE (IF cs[1] \in special THEN <<Backslash, cs[1]>> ELSE <<cs[1]>>)
         \o EscapeChars(Tail(cs), special)

repr_str(cs) ==
    IF Member(Apostrophe, cs) /\ ~Member(Quote, cs)
    THEN <<Quote>> \o EscapeChars(cs, {Backslash}) \o <<Quote>>
    ELSE <<Apostrophe>> \o EscapeChars(cs, {Backslash, Apostrophe}) \o <<Apostrophe>>

RECURSIVE repr(_)
RECURSIVE repr_items(_)
RECURSIVE repr_pairs(_)

repr(x) ==
    CASE x.t = "null" -> <<"N", "o", "n", "e">>
      [] x.t = "bool" -> IF x.b THEN <<"T", "r", "u", "e">> ELSE <<"F", "a", "l", "s", "e">>
      [] x.t = "int" -> IntChars(x.i)
      [] x.t = "bigint" -> BigChars
      [] x.t = "float" -> FloatChars(x)
      [] x.t = "inf" -> (IF x.neg THEN <<"-">> ELSE <<>>) \o Word_inf
      [] x.t = "nan" -> Word_nan
      [] x.t = "str" -> repr_str(x.s)
      [] x.t = "list" -> <<"[">> \o repr_items(x.xs) \o <<"]">>
      [] x.t = "obj" -> <<"{">> \o repr_pairs(x.kv) \o <<"}">>

repr_items(xs) ==
    IF xs = <<>> THEN <<>>
    ELSE repr(xs[1]) \o (IF Len(xs) > 1 THEN <<",", " ">> ELSE <<>>) \o repr_items(Tail(xs))

repr_pairs(kv) ==
    IF kv = <<>> THEN <<>>
    ELSE <<Apostrophe, kv[1][1], Apostrophe, ":", " ">> \o repr(kv[1][2])
         \o (IF Len(kv) > 1 THEN <<",", " ">> ELSE <<>>) \o repr_pairs(Tail(kv))

\* str(x): the string itself for a str, repr(x) for everything else.
str(x) == IF x.t = "str" THEN x ELSE JStr(repr(x))

---------------------------------------------------------------------------
(* json.dumps(obj, ensure_ascii=False, separators=(",", ":")) and json.loads. *)

RECURSIVE dumps_chars(_)
RECURSIVE dumps_items(_)
RECURSIVE dumps_pairs(_)

\* Mutant of dumps_str: a string is written between quotes without escaping.
dumps_str_unescaped(cs) == <<Quote>> \o cs \o <<Quote>>

dumps_str(cs) == <<Quote>> \o EscapeChars(cs, {Backslash, Quote}) \o <<Quote>>

dumps_chars(x) ==
    CASE x.t = "null" -> Word_null
      [] x.t = "bool" -> IF x.b THEN <<"t", "r", "u", "e">> ELSE <<"f", "a", "l", "s", "e">>
      [] x.t = "int" -> IntChars(x.i)
      [] x.t = "bigint" -> BigChars
      [] x.t = "float" -> FloatChars(x)
      [] x.t = "inf" -> (IF x.neg THEN <<"-">> ELSE <<>>)
                        \o <<"I", "n", "f", "i", "n", "i", "t", "y">>
      [] x.t = "nan" -> <<"N", "a", "N">>
      [] x.t = "str" -> dumps_str(x.s)
      [] x.t = "list" -> <<"[">> \o dumps_items(x.xs) \o <<"]">>
      [] x.t = "obj" -> <<"{">> \o dumps_pairs(x.kv) \o <<"}">>

dumps_items(xs) ==
    IF xs = <<>> THEN <<>>
    ELSE dumps_chars(xs[1]) \o (IF Len(xs) > 1 THEN <<",">> ELSE <<>>)
         \o dumps_items(Tail(xs))

dumps_pairs(kv) ==
    IF kv = <<>> THEN <<>>
    ELSE <<Quote, kv[1][1], Quote, ":">> \o dumps_chars(kv[1][2])
         \o (IF Len(kv) > 1 THEN <<",">> ELSE <<>>) \o dumps_pairs(Tail(kv))

json_dumps(obj) == JStr(dumps_chars(obj))

\* The character at position n, "" past the end.
At(s, n) == IF n \in 1..Len(s) THEN s[n] ELSE ""

StartsWith(s, n, w) == n + Len(w) - 1 <= Len(s) /\ SubSeq(s, n, n + Len(w) - 1) = w

\* The first position from n on that holds no digit.
RunEnd(s, n) ==
    CHOOSE e \in n..(Len(s) + 1) :
        ~IsDigit(At(s, e)) /\ \A j \in n..(e - 1) : IsDigit(At(s, j))

Parsed(v, n) == [v |-> v, n |-> n]
ParseError == Parsed(Raise("ValueError"), 0)

\* dict[key] = value: a repeated key keeps its place and takes the later value.
Put(kv, key, value) ==
    IF \E n \in 1..Len(kv) : kv[n][1] = key
    THEN [n \in 1..Len(kv) |-> IF kv[n][1] = key THEN <<key, value>> ELSE kv[n]]
    ELSE Append(kv, <<key, value>>)

RECURSIVE ParseStr(_, _, _)
\* The characters of a string up to its closing quote, from position n.
ParseStr(s, n, acc) ==
    LET c == At(s, n)
    IN IF c = "" THEN ParseError
       ELSE IF c = Quote THEN Parsed(JStr(acc), n + 1)
       ELSE IF c = Backslash
            THEN IF At(s, n + 1) \in {Quote, Backslash}
                 THEN ParseStr(s, n + 2, Append(acc, At(s, n + 1)))
                 ELSE ParseError
       ELSE ParseStr(s, n + 1, Append(acc, c))

ParseNumber(s, n) ==
    LET neg == At(s, n) = "-"
        j == IF neg THEN n + 1 ELSE n
        e == RunEnd(s, j)
        ip == SubSeq(s, j, e - 1)
        fe == IF At(s, e) = "." THEN RunEnd(s, e + 1) ELSE e
        fp == SubSeq(s, e + 1, fe - 1)
        sign == IF neg THEN -1 ELSE 1
    IN IF StartsWith(s, j, <<"I", "n", "f", "i", "n", "i", "t", "y">>)
       THEN Parsed([t |-> "inf", neg |-> neg], j + 8)
       ELSE IF ip = <<>> \/ (Len(ip) > 1 /\ ip[1] = "0") THEN ParseError
       ELSE IF fp # <<>>
            THEN Parsed(JFloat(sign * DigitsVal(ip \o fp), Len(fp)), fe)
       ELSE IF Len(ip) > 9 THEN Parsed(JBig, e)
       ELSE Parsed(JInt(sign * DigitsVal(ip)), e)

RECURSIVE ParseVal(_, _)
RECURSIVE ParseItems(_, _, _)
RECURSIVE ParsePairs(_, _, _)

ParseVal(s, n) ==
    LET c == At(s, n)
    IN CASE c = Quote -> ParseStr(s, n + 1, <<>>)
         [] c = "[" -> IF At(s, n + 1) = "]" THEN Parsed(JList(<<>>), n + 2)
                       ELSE ParseItems(s, n + 1, <<>>)
         [] c = "{" -> IF At(s, n + 1) = "}" THEN Parsed(JObj(<<>>), n + 2)
                       ELSE ParsePairs(s, n + 1, <<>>)
         [] StartsWith(s, n, Word_null) -> Parsed(Null, n + 4)
         [] StartsWith(s, n, <<"t", "r", "u", "e">>) -> Parsed(JBool(TRUE), n + 4)
         [] StartsWith(s, n, <<"f", "a", "l", "s", "e">>) -> Parsed(JBool(FALSE), n + 5)
         [] StartsWith(s, n, <<"N", "a", "N">>) -> Parsed(JNaN, n + 3)
         [] c = "-" \/ c = "I" \/ IsDigit(c) -> ParseNumber(s, n)
         [] OTHER -> ParseError

ParseItems(s, n, acc) ==
    LET r == ParseVal(s, n)
    IN IF IsRaise(r.v) THEN ParseError
       ELSE IF At(s, r.n) = "," THEN ParseItems(s, r.n + 1, Append(acc, r.v))
       ELSE IF At(s, r.n) = "]" THEN Parsed(JList(Append(acc, r.v)), r.n + 1)
       ELSE ParseError

ParsePairs(s, n, acc) ==
    IF ~(At(s, n) = Quote /\ At(s, n + 1) # "" /\ At(s, n + 2) = Quote /\ At(s, n + 3) = ":")
    THEN ParseError
    ELSE LET r == ParseVal(s, n + 4)
         IN IF IsRaise(r.v) THEN ParseError
            ELSE IF At(s, r.n) = ","
                 THEN ParsePairs(s, r.n + 1, Put(acc, s[n + 1], r.v))
            ELSE IF At(s, r.n) = "}"
                 THEN Parsed(JObj(Put(acc, s[n + 1], r.v)), r.n + 1)
            ELSE ParseError

\* json.loads(text): the value, or ValueError (blanks are read around the
\* document only; the texts of the model are compact).
json_loads(text) ==
    IF text.t # "str" THEN Raise("TypeError")
    ELSE LET s == Strip(text.s)
             r == ParseVal(s, 1)
         IN IF IsRaise(r.v) \/ r.n # Len(s) + 1 THEN Raise("ValueError") ELSE r.v

---------------------------------------------------------------------------
(* _to_datetime *)

\* frappe.utils.get_datetime(value) followed by strftime("%Y-%m-%d %H:%M:%S"),
\* on the stamps of the model: YYYY-MM-DD, a "T" or a blank, HH:MM:SS is read
\* and written back with a blank; anything else makes the parser raise.
get_datetime(value) ==
    IF value.t # "str" THEN Raise("TypeError")
    ELSE LET cs == value.s
         IN IF /\ Len(cs) = 19
               /\ cs[5] = "-" /\ cs[8] = "-" /\ cs[11] \in {"T", " "}
               /\ cs[14] = ":" /\ cs[17] = ":"
               /\ \A n \in (1..19) \ {5, 8, 11, 14, 17} : IsDigit(cs[n])
            THEN JStr([n \in 1..19 |-> IF n = 11 THEN " " ELSE cs[n]])
            ELSE Raise("ValueError")

_to_datetime(value) ==
    IF ~Truthy(value) THEN Null
    ELSE LET dt == get_datetime(value)
         IN IF IsRaise(dt) THEN Null ELSE dt

---------------------------------------------------------------------------
(* _extract_custom_value *)

\* The slugs are dict keys (one symbol) and, in custom_fields, string values.
QuizAttr(d) == <<"q", "u", "i", "z", "_", "a", "t", "t", "r", "_", d>>

SlugStr(slug) ==
    CASE slug = "quiz_attr_1" -> JStr(QuizAttr("1"))
      [] slug = "quiz_attr_2" -> JStr(QuizAttr("2"))
      [] slug = "quiz_attr_6" -> JStr(QuizAttr("6"))

Label_StudentName ==
    JStr(<<"S", "t", "u", "d", "e", "n", "t", "'", "s", " ", "N", "a", "m", "e">>)
Label_StudentID ==
    JStr(<<"S", "t", "u", "d", "e", "n", "t", "'", "s", " ", "I", "D">>)
Label_TesterName ==
    JStr(<<"T", "e", "s", "t", "e", "r", "'", "s", " ", "N", "a", "m", "e">>)

\* candidate not in (None, "")
NonEmpty(candidate) == candidate \notin {Null, JStr(<<>>)}

IsDict(x) == x.t = "obj"
IsList(x) == x.t = "list"

\* for field_value in fields.values(): the first dict whose label is label
LabelMatches(fields, label) ==
    {n \in 1..Len(fields.kv) :
        IsDict(fields.kv[n][2]) /\ Get(fields.kv[n][2], "label") = label}

Min(S) == CHOOSE n \in S : \A m \in S : n <= m

\* Lines 66-77: what the fields block returns, Null when it falls through.
FromFields(pld, slug, label) ==
    LET fields == Or(Get(pld, "fields"), JObj(<<>>))
    IN IF ~IsDict(fields) THEN Null
       ELSE LET first == Get(fields, slug)
                hits == LabelMatches(fields, label)
                item == IF ~Truthy(first) /\ hits # {}
                        THEN fields.kv[Min(hits)][2]
                        ELSE first
            IN IF IsDict(item) /\ NonEmpty(Get(item, "value"))
               THEN str(Get(item, "value"))
               ELSE Null

\* Lines 79-87: the first entry of custom_fields that matches and has a value.
FromCustomFields(pld, slug, label) ==
    LET custom_fields == Or(Get(pld, "custom_fields"), JList(<<>>))
    IN IF ~IsList(custom_fields) THEN Null
       ELSE LET hits == {n \in 1..Len(custom_fields.xs) :
                            LET entry == custom_fields.xs[n]
                            IN /\ IsDict(entry)
                               /\ \/ Get(entry, "slug") = SlugStr(slug)
                                  \/ Get(entry, "label") = label
                               /\ NonEmpty(Get(entry, "value"))}
            IN IF hits = {} THEN Null
               ELSE str(Get(custom_fields.xs[Min(hits)], "value"))

\* Lines 89-93
FromCustomFieldValues(pld, slug) ==
    LET custom_field_values == Or(Get(pld, "custom_field_values"), JObj(<<>>))
    IN IF IsDict(custom_field_values) /\ NonEmpty(Get(custom_field_values, slug))
       THEN str(Get(custom_field_values, slug))
       ELSE Null

_extract_custom_value(pld, slug, label) ==
    IF FromFields(pld, slug, label) # Null
    THEN FromFields(pld, slug, label)
    ELSE IF FromCustomFields(pld, slug, label) # Null
    THEN FromCustomFields(pld, slug, label)
    ELSE FromCustomFieldValues(pld, slug)

---------------------------------------------------------------------------
(* _load_payload *)

\* A request is [json |-> what frappe.request.get_json() returns or raises,
\*               form |-> frappe.form_dict, a dict].

\* except (TypeError, ValueError): return {}
CatchEmpty(r) ==
    IF IsRaise(r) /\ r.e \in {"TypeError", "ValueError"} THEN JObj(<<>>) ELSE r

_load_payload(req) ==
    IF ~IsRaise(req.json) /\ Truthy(req.json) THEN req.json
    ELSE IF Truthy(req.form) /\ IsDict(req.form)
    THEN IF Len(req.form.kv) = 1 /\ req.form.kv[1][2].t = "str"
         THEN CatchEmpty(json_loads(req.form.kv[1][2]))
         ELSE CatchEmpty(json_loads(json_dumps(req.form)))
    ELSE JObj(<<>>)

---------------------------------------------------------------------------
(* submit_quiz_result: validation and field derivation (lines 100-135) *)

\* (payload.get("user") or {}).get(key): a truthy user that is no dict has no get.
UserGet(pld, key) ==
    LET user == Or(Get(pld, "user"), JObj(<<>>))
    IN IF IsDict(user) THEN Get(user, key) ELSE Raise("AttributeError")

\* The keys of doc_values, in the order the dict literal evaluates them.
FieldOrder ==
    <<"result_id", "quiz_id", "quiz_title", "score_percentage", "final_score",
      "score_by", "score_type", "points", "duration_seconds", "start_time",
      "end_time", "submitted_at", "student_name", "student_id", "tester_name",
      "user_email", "user_phone", "user_ip", "integration_source", "raw_payload">>

FieldNames == {FieldOrder[n] : n \in 1..Len(FieldOrder)}

DocValues(pld) ==
    [result_id |-> _to_int(Get(pld, "result_id")),
     quiz_id |-> _to_int(Get(pld, "quiz_id")),
     quiz_title |-> str(Get(pld, "quiz_title")),
     score_percentage |-> _to_float(Get(pld, "score_percentage")),
     final_score |-> _to_float(Get(pld, "final_score")),
     score_by |-> _to_float(Get(pld, "score_by")),
     score_type |-> Get(pld, "score_type"),
     points |-> _to_float(Get(pld, "points")),
     duration_seconds |-> _to_int(Get(pld, "duration_seconds")),
     start_time |-> _to_datetime(Get(pld, "start_date")),
     end_time |-> _to_datetime(Get(pld, "end_date")),
     submitted_at |-> _to_datetime(Get(pld, "submitted_at")),
     student_name |-> _extract_custom_value(pld, "quiz_attr_2", Label_StudentName),
     student_id |-> _extract_custom_value(pld, "quiz_attr_1", Label_StudentID),
     tester_name |-> _extract_custom_value(pld, "quiz_attr_6", Label_TesterName),
     user_email |-> UserGet(pld, "email"),
     user_phone |-> UserGet(pld, "phone"),
     user_ip |-> Get(pld, "user_ip"),
     integration_source |-> Get(pld, "integration"),
     raw_payload |-> json_dumps(pld)]

\* The first exception the evaluation of doc_values raises, Null when none.
FirstRaise(dv) ==
    LET bad == {n \in 1..Len(FieldOrder) : IsRaise(dv[FieldOrder[n]])}
    IN IF bad = {} THEN Null ELSE dv[FieldOrder[Min(bad)]]

Returned(status, message) == [status |-> status, message |-> message]
Success(docname, result_id) ==
    [status |-> "success", docname |-> docname, result_id |-> result_id]
\* An exception that leaves submit_quiz_result, raised in the named part of it.
Escaped(exc, part) == [status |-> "raised", e |-> exc.e, at |-> part]
NoResult == [status |-> "none"]

MissingPayload == Returned("error", "Missing payload.")
MissingRequired == Returned("error", "Both result_id and quiz_title are required.")
Unexpected == Returned("error", "An unexpected error occurred.")

\* not result_id or not quiz_title
RequiredMissing(result_id, quiz_title) == ~Truthy(result_id) \/ ~Truthy(quiz_title)

\* Lines 100-135 on a resolved payload: the value returned early, the exception
\* that escapes, or NoResult when the call goes on to the upsert.
Validate(pld) ==
    IF ~Truthy(pld) THEN MissingPayload
    ELSE IF ~IsDict(pld) THEN Escaped(Raise("AttributeError"), "validation")
    ELSE IF IsRaise(_to_int(Get(pld, "result_id")))
    THEN Escaped(_to_int(Get(pld, "result_id")), "validation")
    ELSE IF RequiredMissing(_to_int(Get(pld, "result_id")), Get(pld, "quiz_title"))
    THEN MissingRequired
    ELSE IF FirstRaise(DocValues(pld)) # Null
    THEN Escaped(FirstRaise(DocValues(pld)), "derivation")
    ELSE NoResult

---------------------------------------------------------------------------
(* The store, as submit_quiz_result uses it. *)

Procs == 1..NProcs

NoDoc == [f \in FieldNames \cup {"name"} |-> Null]

\* Mutant of get_all: the filter names the wrong field (quiz_id).
get_all_wrong_field(store, result_id) ==
    {d.name : d \in {x \in store : x.quiz_id = result_id}}

\* frappe.get_all(DOC_TYPE, filters={"result_id": result_id}, pluck="name"): the
\* names of the committed documents with that result_id.
get_all(store, result_id) == {d.name : d \in {x \in store : x.result_id = result_id}}

\* Mutant of doc_update: doc.update(doc_values), without the "is not None" filter.
doc_update_unfiltered(doc, dv) ==
    [f \in DOMAIN doc |-> IF f \in DOMAIN dv THEN dv[f] ELSE doc[f]]

\* doc.update({k: v for k, v in doc_values.items() if v is not None})
doc_update(doc, dv) ==
    [f \in DOMAIN doc |-> IF f \in DOMAIN dv /\ dv[f] # Null THEN dv[f] ELSE doc[f]]

\* The name the store gives a new document: one no document carries.
FreshName ==
    LET used == {d.name : d \in db \cup UNION {txn[p] : p \in Procs}}
    IN JInt(Min({n \in 1..(Cardinality(used) + 1) : JInt(n) \notin used}))

\* doc.insert(): the document is added under a fresh name.  The store is given no
\* unique constraint on result_id (none is declared in the code that uses it).
StoreInsert(docs, doc) == docs \cup {[doc EXCEPT !.name = FreshName]}

\* doc.save(): the document replaces the one of its name.
StoreSave(docs, doc) == {d \in docs : d.name # doc.name} \cup {doc}

\* frappe.db.commit(): the writes of the transaction reach the committed store.
StoreCommit(store, writes) ==
    {d \in store : \A w \in writes : w.name # d.name} \cup writes

\* frappe.get_doc(DOC_TYPE, name)
get_doc(store, name) == CHOOSE d \in store : d.name = name

---------------------------------------------------------------------------
(* The requests the model submits. *)

Absent == [t |-> "absent"]

\* A dict of the pairs whose value is not Absent.
MkObj(kv) == JObj(SelectSeq(kv, LAMBDA e : e[2] # Absent))

JsonRequest(body) == [json |-> body, form |-> JObj(<<>>)]
FormRequest(form) == [json |-> Raise("BadRequest"), form |-> form]

Stamp ==
    JStr(<<"2", "0", "2", "4", "-", "0", "1", "-", "0", "1", "T",
           "1", "0", ":", "0", "0", ":", "0", "0">>)

ResultIdValues ==
    {Absent, Null, JInt(0), JInt(1), JInt(2), JStr(<<"0">>), JStr(<<"1">>),
     JStr(<<"a", "b", "c">>), JStr(Word_null), JStr(<<>>), JInf, JFloat(15, 1),
     JBool(TRUE), JList(<<>>)}

QuizTitleValues == {Absent, JStr(<<"A">>), JStr(<<>>)}

\* Payloads that differ in the two required fields.
ValidationPayloads ==
    {MkObj(<< <<"result_id", r>>, <<"quiz_title", q>> >>) :
        r \in ResultIdValues, q \in QuizTitleValues}
    \cup {MkObj(<< <<"user_ip", JStr(<<"h">>)>> >>)}

StudentNameField ==
    JObj(<< <<"quiz_attr_2",
              JObj(<< <<"label", Label_StudentName>>, <<"value", JStr(<<"J">>)>> >>)>> >>)

\* A payload with every kind of optional field (the request of section 6 of the
\* specification, shortened).
FullPayload ==
    MkObj(<< <<"result_id", JInt(1)>>, <<"quiz_title", JStr(<<"A">>)>>,
             <<"score_percentage", JFloat(875, 1)>>, <<"final_score", JInt(35)>>,
             <<"score_type", JStr(<<"p">>)>>, <<"duration_seconds", JInt(600)>>,
             <<"start_date", Stamp>>, <<"fields", StudentNameField>>,
             <<"user", JObj(<< <<"email", JStr(<<"e">>)>>, <<"phone", JStr(<<"+", "1">>)>> >>)>>,
             <<"user_ip", JStr(<<"h">>)>>, <<"integration", JStr(<<"t">>)>> >>)

\* Payloads for result_id 1 that differ in the optional fields.
MergePayloads ==
    {MkObj(<< <<"result_id", JInt(1)>>, <<"quiz_title", q>>, <<"quiz_id", i>>,
              <<"score_percentage", sp>> >>) :
        q \in {JStr(<<"A">>), JStr(<<"B", Quote>>)},
        i \in {Absent, JInt(9)},
        sp \in {Absent, JStr(<<"9", "0">>)}}
    \cup {MkObj(<< <<"result_id", JInt(1)>>, <<"quiz_title", JStr(<<"A">>)>>, e >>) :
            e \in {<<"start_date", JStr(<<"x">>)>>,
                   <<"user", JStr(<<"u">>)>>,
                   <<"quiz_id", JInf>>,
                   <<"points", JBig>>}}
    \cup {FullPayload}

FormPayload ==
    MkObj(<< <<"result_id", JStr(<<"2">>)>>, <<"quiz_title", JStr(<<"A">>)>> >>)

\* Bodies that are no JSON object, and form-encoded bodies.
ShapeRequests ==
    {JsonRequest(Null), JsonRequest(JList(<<JInt(1)>>)), JsonRequest(JStr(<<"s">>)),
     JsonRequest(JInt(5)),
     FormRequest(JObj(<<>>)),
     FormRequest(FormPayload),
     FormRequest(JObj(<< <<"data", json_dumps(FormPayload)>> >>)),
     FormRequest(JObj(<< <<"data", JStr(<<"a", "b", "c">>)>> >>)),
     FormRequest(JObj(<< <<"data", JStr(<<"[", "1", "]">>)>> >>)),
     FormRequest(JObj(<< <<"data", JStr(<<"0">>)>> >>)),
     FormRequest(JObj(<< <<"result_id", JStr(<<"2">>)>> >>)),
     FormRequest(JObj(<< <<"data", JList(<<>>)>> >>))}

Requests ==
    {JsonRequest(b) : b \in ValidationPayloads \cup MergePayloads} \cup ShapeRequests

\* The requests of the concurrent specification.
ConcRequests ==
    {JsonRequest(MkObj(<< <<"result_id", r>>, <<"quiz_title", q>> >>)) :
        r \in {JInt(1)}, q \in {Absent, JStr(<<"A">>), JStr(<<"B">>)}}

---------------------------------------------------------------------------
(* submit_quiz_result as a state machine. *)

InitStore ==
    /\ db = {}
    /\ pc = [p \in Procs |-> "idle"]
    /\ payload = [p \in Procs |-> Null]
    /\ doc_values = [p \in Procs |-> Null]
    /\ existing = [p \in Procs |-> <<>>]
    /\ txn = [p \in Procs |-> {}]
    /\ result = [p \in Procs |-> NoResult]
    /\ lastOk = [r \in {} |-> Null]

Init == InitStore /\ fn = "" /\ args = <<>> /\ ret = Null

\* Lines 100-135: resolve the payload, validate it, derive doc_values.
Receive(p, req) ==
    /\ pc[p] = "idle"
    /\ payload' = [payload EXCEPT ![p] = _load_payload(req)]
    /\ IF Validate(_load_payload(req)) = NoResult
       THEN /\ doc_values' = [doc_values EXCEPT ![p] = DocValues(_load_payload(req))]
            /\ pc' = [pc EXCEPT ![p] = "lookup"]
            /\ UNCHANGED result
       ELSE /\ result' = [result EXCEPT ![p] = Validate(_load_payload(req))]
            /\ pc' = [pc EXCEPT ![p] = "done"]
            /\ UNCHANGED doc_values
    /\ UNCHANGED <<db, existing, txn, lastOk, fn, args, ret>>

\* Lines 137-142: existing = frappe.get_all(..., limit=1), outside the try block.
Lookup(p) ==
    /\ pc[p] = "lookup"
    /\ LET names == get_all(db, doc_values[p].result_id)
       IN \E e \in (IF names = {} THEN {<<>>} ELSE {<<n>> : n \in names}) :
              existing' = [existing EXCEPT ![p] = e]
    /\ pc' = [pc EXCEPT ![p] = "write"]
    /\ UNCHANGED <<db, payload, doc_values, txn, result, lastOk, fn, args, ret>>

\* frappe.get_all raises (the database is unreachable, say): no handler encloses
\* lines 137-142, so the exception leaves submit_quiz_result.
LookupFails(p) ==
    /\ pc[p] = "lookup"
    /\ result' = [result EXCEPT ![p] = Escaped(Raise("DatabaseError"), "lookup")]
    /\ pc' = [pc EXCEPT ![p] = "done"]
    /\ UNCHANGED <<db, payload, doc_values, existing, txn, lastOk, fn, args, ret>>

\* Lines 145-152: update and save the existing document, or insert a new one.
Write(p) ==
    /\ pc[p] = "write"
    /\ txn' = [txn EXCEPT ![p] =
                  IF existing[p] # <<>>
                  THEN StoreSave(txn[p], doc_update(get_doc(db, existing[p][1]), doc_values[p]))
                  ELSE StoreInsert(txn[p], doc_update(NoDoc, doc_values[p]))]
    /\ pc' = [pc EXCEPT ![p] = "commit"]
    /\ UNCHANGED <<db, payload, doc_values, existing, result, lastOk, fn, args, ret>>

\* get_doc, save or insert raises: control passes to the except clause.
WriteFails(p) ==
    /\ pc[p] = "write"
    /\ pc' = [pc EXCEPT ![p] = "except"]
    /\ UNCHANGED <<db, payload, doc_values, existing, txn, result, lastOk, fn, args, ret>>

\* Lines 154 and 160-164: frappe.db.commit(), then the success value.
Commit(p) ==
    /\ pc[p] = "commit"
    /\ db' = StoreCommit(db, txn[p])
    /\ txn' = [txn EXCEPT ![p] = {}]
    /\ result' = [result EXCEPT ![p] =
                     Success((CHOOSE d \in txn[p] : TRUE).name, doc_values[p].result_id)]
    /\ lastOk' = [r \in DOMAIN lastOk \cup {doc_values[p].result_id} |->
                     IF r = doc_values[p].result_id THEN payload[p] ELSE lastOk[r]]
    /\ pc' = [pc EXCEPT ![p] = "done"]
    /\ UNCHANGED <<payload, doc_values, existing, fn, args, ret>>

\* frappe.db.commit() raises.
CommitFails(p) ==
    /\ pc[p] = "commit"
    /\ pc' = [pc EXCEPT ![p] = "except"]
    /\ UNCHANGED <<db, payload, doc_values, existing, txn, result, lastOk, fn, args, ret>>

\* Lines 155-158: rollback, log, return the generic error.
Except(p) ==
    /\ pc[p] = "except"
    /\ txn' = [txn EXCEPT ![p] = {}]
    /\ result' = [result EXCEPT ![p] = Unexpected]
    /\ pc' = [pc EXCEPT ![p] = "done"]
    /\ UNCHANGED <<db, payload, doc_values, existing, lastOk, fn, args, ret>>

\* The invocation is over; the worker takes the next request.
Return(p) ==
    /\ pc[p] = "done"
    /\ pc' = [pc EXCEPT ![p] = "idle"]
    /\ payload' = [payload EXCEPT ![p] = Null]
    /\ doc_values' = [doc_values EXCEPT ![p] = Null]
    /\ existing' = [existing EXCEPT ![p] = <<>>]
    /\ result' = [result EXCEPT ![p] = NoResult]
    /\ UNCHANGED <<db, txn, lastOk, fn, args, ret>>

\* Non-overlapping calls: one worker, each call runs to its end before the next.
Next ==
    \/ \E req \in Requests : Receive(1, req)
    \/ Lookup(1)
    \/ LookupFails(1)
    \/ Write(1)
    \/ WriteFails(1)
    \/ Commit(1)
    \/ CommitFails(1)
    \/ Except(1)
    \/ Return(1)

Spec == Init /\ [][Next]_vars

\* Concurrent calls: the server runs NProcs invocations whose steps interleave.
NextConc ==
    \E p \in Procs :
        \/ \E req \in ConcRequests : Receive(p, req)
        \/ Lookup(p)
        \/ LookupFails(p)
        \/ Write(p)
        \/ WriteFails(p)
        \/ Commit(p)
        \/ CommitFails(p)
        \/ Except(p)
        \/ Return(p)

SpecConc == Init /\ [][NextConc]_vars

---------------------------------------------------------------------------
(* The pure functions, applied to inputs drawn from bounded sets. *)

CoerceAlphabet == {"1", "0", "-", ".", " ", "x"}

CoerceStrings ==
    UNION {[1..m -> CoerceAlphabet] : m \in 0..MaxStrLen}
    \cup {Word_null, <<"a", "b", "c">>, <<"4", "2">>, Word_inf, Word_nan}

CoerceValues ==
    {JStr(cs) : cs \in CoerceStrings}
    \cup {Null, JInt(-1), JInt(0), JInt(42), JFloat(45, 1), JFloat(-5, 1), JFloat(90, 0),
          JInf, [t |-> "inf", neg |-> TRUE], JNaN, JBig, JBool(TRUE), JBool(FALSE),
          JList(<<>>), JList(<<JInt(1)>>), JObj(<<>>), JObj(<< <<"a", JInt(1)>> >>)}

Item(label, value) == MkObj(<< <<"label", label>>, <<"value", value>> >>)

\* What fields may hold under the slug, and under two other keys.
SlugItems ==
    {Absent, JStr(<<"R">>), JObj(<<>>), Item(Absent, JStr(<<>>)), Item(Absent, JStr(<<"A">>)),
     Item(Label_StudentName, JStr(<<"A">>)), Item(Absent, Null), Item(Absent, JInt(7))}

OtherItems ==
    {Absent, Item(Label_StudentName, JStr(<<"B">>)), Item(Label_StudentName, JStr(<<>>)),
     Item(Label_TesterName, JStr(<<"B">>)), JStr(<<"R">>)}

LaterItems == {Absent, Item(Label_StudentName, JStr(<<"C">>))}

FieldsValues ==
    {Absent, JStr(<<"x">>)}
    \cup {MkObj(<< <<"other", o>>, <<"quiz_attr_2", i>>, <<"later", l>> >>) :
            o \in OtherItems, i \in SlugItems, l \in LaterItems}

CustomFieldEntries ==
    {MkObj(<< <<"slug", JStr(QuizAttr("2"))>>, <<"value", JStr(<<"D">>)>> >>),
     MkObj(<< <<"label", Label_StudentName>>, <<"value", JStr(<<>>)>> >>),
     MkObj(<< <<"slug", JStr(<<"z">>)>>, <<"label", JStr(<<"z">>)>>, <<"value", JStr(<<"Z">>)>> >>),
     JInt(1)}

CustomFieldsValues ==
    {Absent, JStr(<<"x">>)}
    \cup {JList(xs) : xs \in UNION {[1..m -> CustomFieldEntries] : m \in 0..MaxCustomFields}}

CustomFieldValuesValues ==
    {Absent, JList(<<JInt(1)>>), MkObj(<< <<"quiz_attr_2", JStr(<<"E">>)>> >>),
     MkObj(<< <<"quiz_attr_2", JStr(<<>>)>> >>)}

ExtractPayloads ==
    {MkObj(<< <<"fields", f>>, <<"custom_fields", c>>, <<"custom_field_values", v>> >>) :
        f \in FieldsValues, c \in CustomFieldsValues, v \in CustomFieldValuesValues}

SlugLabels ==
    {<<"quiz_attr_2", Label_StudentName>>, <<"quiz_attr_6", Label_TesterName>>}

InitPure ==
    /\ InitStore
    /\ fn = ""
    /\ ret = Null
    /\ args \in {<<v>> : v \in CoerceValues}
                \cup {<<pld, sl[1], sl[2]>> : pld \in ExtractPayloads, sl \in SlugLabels}

Call_to_int ==
    /\ fn = "" /\ Len(args) = 1
    /\ fn' = "_to_int"
    /\ ret' = _to_int(args[1])
    /\ UNCHANGED <<db, pc, payload, doc_values, existing, txn, result, lastOk, args>>

Call_to_float ==
    /\ fn = "" /\ Len(args) = 1
    /\ fn' = "_to_float"
    /\ ret' = _to_float(args[1])
    /\ UNCHANGED <<db, pc, payload, doc_values, existing, txn, result, lastOk, args>>

Call_extract_custom_value ==
    /\ fn = "" /\ Len(args) = 3
    /\ fn' = "_extract_custom_value"
    /\ ret' = _extract_custom_value(args[1], args[2], args[3])
    /\ UNCHANGED <<db, pc, payload, doc_values, existing, txn, result, lastOk, args>>

NextPure == Call_to_int \/ Call_to_float \/ Call_extract_custom_value

SpecPure == InitPure /\ [][NextPure]_vars

---------------------------------------------------------------------------
(* Claims. *)

StoredUnder(r) == {d \in db : d.result_id = r}

\* C1: after any sequence of non-overlapping calls the store holds at most one
\* document per result_id: exactly one for every result_id that has had a
\* successful submission, none for any other.
C1_OneRecordPerResultId ==
    /\ \A d1, d2 \in db : d1.result_id = d2.result_id => d1 = d2
    /\ \A r \in DOMAIN lastOk : StoredUnder(r) # {}
    /\ \A d \in db : d.result_id \in DOMAIN lastOk

\* A later successful submission found the document of its result_id and updated
\* it, while the store holds documents of two result_ids.
C1_Witness ==
    /\ pc[1] = "done"
    /\ result[1].status = "success"
    /\ existing[1] # <<>>
    /\ Cardinality(db) = 2

\* C2: when invocations run concurrently, with the lookup and the insert+commit
\* as separate steps, the store still holds at most one document per result_id.
C2_ConcurrentOneRecord ==
    \A d \in db : Cardinality(StoredUnder(d.result_id)) <= 1

\* C3: a successful submission that finds a document of its result_id overwrites
\* the fields whose derived value is not null, keeps every other field as stored
\* before the call, and leaves the documents of other result_ids unchanged.
C3_MergeKeepsNullFields ==
    [][\A p \in Procs :
          (pc[p] = "commit" /\ pc'[p] = "done" /\ existing[p] # <<>>) =>
              /\ result'[p].status = "success"
              /\ Cardinality(db') = Cardinality(db)
              /\ \A d \in db :
                    IF d.name = existing[p][1]
                    THEN \E u \in db' :
                            /\ u.name = d.name
                            /\ \A f \in FieldNames :
                                  u[f] = IF doc_values[p][f] # Null
                                         THEN doc_values[p][f]
                                         ELSE d[f]
                    ELSE d \in db']_vars

\* A submission without quiz_id has updated a document that keeps the quiz_id of
\* an earlier submission and carries the new raw_payload, beside another document.
C3_Witness ==
    \E d \in db :
        /\ pc[1] = "done"
        /\ result[1].status = "success"
        /\ existing[1] = <<d.name>>
        /\ doc_values[1].quiz_id = Null
        /\ d.quiz_id # Null
        /\ d.raw_payload = doc_values[1].raw_payload
        /\ Cardinality(db) = 2

\* The call reached the upsert (doc_values was built).
ReachedUpsert(p) == doc_values[p] # Null

\* C4: a call that fails during the lookup, the merge or the persist rolls its
\* transaction back and returns the generic error value.
C4_FailureReturnsError ==
    \A p \in Procs :
        (pc[p] = "done" /\ ReachedUpsert(p) /\ result[p].status # "success") =>
            result[p] = Unexpected /\ txn[p] = {}

\* What the claims call result_id and quiz_title of a payload.
ClaimedResultId(pld) == IF IsDict(pld) THEN Get(pld, "result_id") ELSE Null
ClaimedQuizTitle(pld) == IF IsDict(pld) THEN Get(pld, "quiz_title") ELSE Null

\* The value converts to an integer.
CoercesToInt(value) == ~IsAbsent(value) /\ int(value).t \in {"int", "bigint"}

\* C5: a payload that is empty is answered "Missing payload."; any other payload
\* (here: any non-empty JSON object) whose result_id is missing or does not
\* coerce to an integer, or whose quiz_title is missing, is answered "Both
\* result_id and quiz_title are required."; neither reaches the store.
C5_ValidationReturnsValues ==
    \A p \in Procs :
        pc[p] = "done" =>
            /\ ~Truthy(payload[p]) => result[p] = MissingPayload
            /\ (/\ Truthy(payload[p]) /\ IsDict(payload[p])
                /\ \/ ~CoercesToInt(ClaimedResultId(payload[p]))
                   \/ ClaimedQuizTitle(payload[p]) = Null)
               => result[p] = MissingRequired /\ ~ReachedUpsert(p) /\ txn[p] = {}

\* C6: no exception leaves submit_quiz_result from payload resolution,
\* validation or field derivation.
C6_NoExceptionEscapes ==
    \A p \in Procs :
        ~(result[p].status = "raised" /\ result[p].at \in {"validation", "derivation"})

\* The four lookups of C7, each Null when it yields nothing.
Lookup1(pld, slug) ==
    LET fields == Get(pld, "fields")
    IN IF IsDict(fields) /\ IsDict(Get(fields, slug))
       THEN Get(Get(fields, slug), "value")
       ELSE Null

Lookup2(pld, label) ==
    LET fields == Get(pld, "fields")
    IN IF IsDict(fields)
       THEN {Get(fields.kv[n][2], "value") : n \in LabelMatches(fields, label)}
       ELSE {}

Lookup4(pld, slug) ==
    LET values == Get(pld, "custom_field_values")
    IN IF IsDict(values) THEN Get(values, slug) ELSE Null

\* C7: _extract_custom_value returns the stringified value of the first of its
\* four lookups that yields a non-empty value, and None only when none does.
C7_FirstNonEmptyLookupWins ==
    fn = "_extract_custom_value" =>
        LET pld == args[1]
            nonEmpty2 == {v \in Lookup2(pld, args[3]) : NonEmpty(v)}
        IN IF NonEmpty(Lookup1(pld, args[2])) THEN ret = str(Lookup1(pld, args[2]))
           ELSE IF nonEmpty2 # {} THEN ret \in {str(v) : v \in nonEmpty2}
           ELSE IF FromCustomFields(pld, args[2], args[3]) # Null
                THEN ret = FromCustomFields(pld, args[2], args[3])
           ELSE IF NonEmpty(Lookup4(pld, args[2])) THEN ret = str(Lookup4(pld, args[2]))
           ELSE ret = Null

\* C8: _to_int and _to_float never raise: None, "" and "null" give None, and so
\* does every value that cannot be converted (lists, dicts, infinite or
\* out-of-range numbers).
C8_CoercionNeverRaises ==
    fn \in {"_to_int", "_to_float"} =>
        /\ ~IsRaise(ret)
        /\ IsAbsent(args[1]) => ret = Null
        /\ args[1].t \in {"list", "obj"} => ret = Null
        /\ (fn = "_to_int" /\ args[1].t = "inf") => ret = Null
        /\ (fn = "_to_float" /\ args[1].t = "bigint") => ret = Null

\* C9: the raw_payload of every stored document, parsed back as JSON, is the
\* payload of the latest successful submission for its result_id.
C9_RawPayloadRoundTrip ==
    \A d \in db :
        /\ d.result_id \in DOMAIN lastOk
        /\ json_loads(d.raw_payload) = lastOk[d.result_id]

\* A submission for a stored result_id has failed in the upsert, with a payload
\* other than the stored one, and a stored title that needs escaping.
C9_Witness ==
    \E d \in db :
        /\ pc[1] = "done"
        /\ result[1] = Unexpected
        /\ d.result_id = doc_values[1].result_id
        /\ d.raw_payload # doc_values[1].raw_payload
        /\ Member(Quote, d.quiz_title.s)

\* C10: a payload whose result_id coerces to an integer (0 and "0" included) and
\* whose quiz_title is present is not answered "Both result_id and quiz_title
\* are required."
C10_OnlyAbsentRejected ==
    \A p \in Procs :
        (/\ pc[p] = "done"
         /\ IsDict(payload[p])
         /\ CoercesToInt(ClaimedResultId(payload[p]))
         /\ Truthy(ClaimedQuizTitle(payload[p])))
        => result[p] # MissingRequired

====
